---- MODULE Spec2Model ----
(***************************************************************************)
(* The snapshot subsystem of aura (`-B`): save, list, clean and restore of *)
(* package snapshots against the tarball caches and the local package      *)
(* database.  Modelled from rust/aura/src/command/snapshot.rs and          *)
(* rust/aura/src/utils.rs.                                                 *)
(***************************************************************************)
EXTENDS Integers, Sequences, FiniteSets, TLC

\* ---------------------------------------------------------------- bounds
MaxSnapshots == 2      \* snapshot files (one per capture second) in the store
NumCaches == 2         \* configured cache directories
FileChunks == 2        \* BufWriter flushes needed to complete one snapshot file
MaxCacheChanges == 1   \* tarballs removed by other programs during a Restore

Names == {"a", "b"}
\* "1.0-1" and "0:1.0-1" differ as strings and compare Equal under vercmp.
Versions == {"1.0-1", "0:1.0-1", "2.0-1"}
CacheVersions == {"1.0-1", "2.0-1"}
Times == 1..MaxSnapshots
Caches == 1..NumCaches
NoVer == ""
EOF == "<eof>"
NumLines == <<"0", "1", "2", "3", "4", "5">>
SelectLines == {NumLines[k + 1] : k \in 0..MaxSnapshots} \cup {"x", EOF}
YesLines == {"", "y", "Y"}
PromptLines == YesLines \cup {"n", EOF}

\* ---------------------------------------------------------------- data
\* HashMap<name, version>: a total function with NoVer for an absent key.
PkgMaps(V) == [Names -> V \cup {NoVer}]
EmptyMap == [n \in Names |-> NoVer]
contains_key(m, n) == m[n] # NoVer
Keys(m) == {n \in Names : contains_key(m, n)}
insert(m, n, v) == [m EXCEPT ![n] = v]

NoSnapshot == [time |-> 0, pinned |-> FALSE, packages |-> EmptyMap]
NoFile == [exists |-> FALSE, pinned |-> FALSE, packages |-> EmptyMap, written |-> 0]
CompleteFile(p, m) == [exists |-> TRUE, pinned |-> p, packages |-> m, written |-> FileChunks]
EmptyDiff == [to_add_or_alter |-> EmptyMap, to_remove |-> {}]
\* The packages the model's caches, snapshots and installations are drawn from:
\* "a" in two versions (so it can be upgraded and downgraded), "b" in one.
Tarballs == {<<"a", "1.0-1">>, <<"a", "2.0-1">>, <<"b", "1.0-1">>}
SystemMaps == {m \in PkgMaps(CacheVersions) : \A n \in Keys(m) : <<n, m[n]>> \in Tarballs}

RECURSIVE SetToSeq(_)
SetToSeq(S) == IF S = {} THEN <<>>
               ELSE LET x == CHOOSE y \in S : TRUE IN <<x>> \o SetToSeq(S \ {x})
RemoveAt(s, i) == [j \in 1..(Len(s) - 1) |-> IF j < i THEN s[j] ELSE s[j + 1]]

VARIABLES snapDir, caches, localdb,
          cmd, pc, result, declined, aborted, prompted,
          vers, todo, deleted, shots, index, snapshot,
          installed, diff, tarballs, driverLog, cacheChanges,
          savePc, saveTime, listPc, listTodo, printed, sawPartial

envVars == <<snapDir, caches, localdb>>
cmdVars == <<cmd, pc, result, declined, aborted, prompted>>
cleanVars == <<todo, deleted>>
restoreVars == <<shots, index, snapshot, installed, diff, tarballs, driverLog, cacheChanges>>
saveVars == <<savePc, saveTime>>
listVars == <<listPc, listTodo, printed, sawPartial>>
vars == <<snapDir, caches, localdb, cmd, pc, result, declined, aborted, prompted,
          vers, todo, deleted, shots, index, snapshot,
          installed, diff, tarballs, driverLog, cacheChanges,
          savePc, saveTime, listPc, listTodo, printed, sawPartial>>

\* ---------------------------------------------------------------- helpers
\* alpm::vercmp: epoch, then version, then release; a missing epoch is 0.
VerRank(v) == IF v = "2.0-1" THEN 2 ELSE 1
vercmp(a, b) == IF VerRank(a) < VerRank(b) THEN "Less"
                ELSE IF VerRank(a) > VerRank(b) THEN "Greater" ELSE "Equal"

\* aura_core::cache::all_versions: name -> versions with a tarball in any cache.
all_versions(cs) == [n \in Names |-> {v \in CacheVersions : \E c \in Caches : <<n, v>> \in cs[c]}]

\* Snapshot::usable: every (name, version) of the snapshot is in the index.
usable(snap, vs) == \A n \in Keys(snap.packages) : snap.packages[n] \in vs[n]

\* read_snapshot: a file whose JSON is not complete does not parse.
read_snapshot(t, f) ==
    [ok |-> f.exists /\ f.written = FileChunks,
     snap |-> [time |-> t, pinned |-> f.pinned, packages |-> f.packages]]

\* aura_core::snapshot::snapshots: the well-formed documents of the directory.
snapshots(dir) == {read_snapshot(t, dir[t]).snap : t \in {u \in Times : read_snapshot(u, dir[u]).ok}}

RECURSIVE SortByTime(_)
SortByTime(S) == IF S = {} THEN <<>>
                 ELSE LET s == CHOOSE x \in S : \A y \in S : x.time <= y.time
                      IN <<s>> \o SortByTime(S \ {s})

\* aura_core::cache::package_paths: every tarball file of every cache, in turn.
RECURSIVE PathsFrom(_, _)
PathsFrom(cs, c) == IF c > NumCaches THEN <<>>
                    ELSE SetToSeq({<<c, tb[1], tb[2]>> : tb \in cs[c]}) \o PathsFrom(cs, c + 1)
package_paths(cs) == PathsFrom(cs, 1)

\* Package::same_version
same_version(pv, v) == pv = v

\* A prompt that takes any line that was read as consent.
prompt_AnyLine(l) == l # EOF

\* utils::prompt: an empty line, "y" or "Y" accepts; a readline error declines.
prompt(l) == l # EOF /\ (l = "" \/ l = "y" \/ l = "Y")

\* usize::from_str
IsNum(l) == \E k \in 0..(Len(NumLines) - 1) : NumLines[k + 1] = l
ParseNum(l) == CHOOSE k \in 0..(Len(NumLines) - 1) : NumLines[k + 1] = l

\* utils::select: the acceptance test of one line
SelectAccepts(l, max) == IsNum(l) /\ max >= ParseNum(l)

\* A deletion test that forgets the negation of usable, and one that forgets pinned.
CleanShouldRemove_Usable(snap, vs) == (~snap.pinned) /\ usable(snap, vs)
CleanShouldRemove_Unpinned(snap, vs) == ~usable(snap, vs)

\* clean: the deletion test of one snapshot
CleanShouldRemove(snap, vs) == (~snap.pinned) /\ (~usable(snap, vs))

\* A restore that offers every stored snapshot.
FilterUsable_All(S, vs) == S

\* restore: the usability filter
FilterUsable(S, vs) == {s \in S : usable(s, vs)}

\* package_diff, body of the first loop: a snapshot package that is not
\* installed at all is to be (re)installed.
DiffStep1(acc, name, snap, inst) ==
    LET ver == snap.packages[name]
    IN IF ~contains_key(inst, name)
       THEN [acc EXCEPT !.to_add_or_alter = insert(@, name, ver)]
       ELSE acc

\* A second loop that also removes a package whose version is to be changed, and
\* one that installs the installed version instead of the snapshot's.
DiffStep2_RemoveChanged(acc, name, snap, inst) ==
    LET ver == inst[name]
        v == snap.packages[name]
    IN IF ~contains_key(snap.packages, name)
       THEN [acc EXCEPT !.to_remove = @ \cup {name}]
       ELSE IF vercmp(v, ver) = "Equal" THEN acc
       ELSE [acc EXCEPT !.to_add_or_alter = insert(@, name, v), !.to_remove = @ \cup {name}]
DiffStep2_StringEqual(acc, name, snap, inst) ==
    LET ver == inst[name]
        v == snap.packages[name]
    IN IF ~contains_key(snap.packages, name)
       THEN [acc EXCEPT !.to_remove = @ \cup {name}]
       ELSE IF v = ver THEN acc
       ELSE [acc EXCEPT !.to_add_or_alter = insert(@, name, v)]

\* package_diff, body of the second loop: an installed package that the
\* snapshot lacks is to be removed; one whose version differs under vercmp is
\* to be replaced by the snapshot's version.
DiffStep2(acc, name, snap, inst) ==
    LET ver == inst[name]
        v == snap.packages[name]
    IN IF ~contains_key(snap.packages, name)
       THEN [acc EXCEPT !.to_remove = @ \cup {name}]
       ELSE IF vercmp(v, ver) = "Equal" THEN acc
       ELSE [acc EXCEPT !.to_add_or_alter = insert(@, name, v)]

\* The two loops; a HashMap is visited in an order the program does not choose.
RECURSIVE DiffLoop1(_, _, _, _)
DiffLoop1(rest, snap, inst, acc) ==
    IF rest = {} THEN acc
    ELSE LET name == CHOOSE n \in rest : TRUE
         IN DiffLoop1(rest \ {name}, snap, inst, DiffStep1(acc, name, snap, inst))

RECURSIVE DiffLoop2(_, _, _, _)
DiffLoop2(rest, snap, inst, acc) ==
    IF rest = {} THEN acc
    ELSE LET name == CHOOSE n \in rest : TRUE
         IN DiffLoop2(rest \ {name}, snap, inst, DiffStep2(acc, name, snap, inst))

package_diff(snap, inst) ==
    DiffLoop2(Keys(inst), snap, inst,
              DiffLoop1(Keys(snap.packages), snap, inst, EmptyDiff))

\* restore_snapshot: the filter over package_paths
TarballMatches(pp, d) ==
    contains_key(d.to_add_or_alter, pp[2]) /\ same_version(pp[3], d.to_add_or_alter[pp[2]])
select_tarballs(cs, d) == SelectSeq(package_paths(cs), LAMBDA pp : TarballMatches(pp, d))

\* crate::pacman::sudo_pacman: Ok on exit status 0, an error on any other.
ExitCodes == {0, 1}
sudo_pacman(exit) == exit = 0

\* pacman -U / -R: the effect of a successful transaction on the local database
RECURSIVE ApplyInstall(_, _)
ApplyInstall(db, paths) == IF paths = <<>> THEN db
                           ELSE ApplyInstall(insert(db, Head(paths)[2], Head(paths)[3]), Tail(paths))
ApplyRemove(db, names) == [n \in Names |-> IF n \in names THEN NoVer ELSE db[n]]

\* A restore that goes on to the removal whatever the "-U" call returned.
AfterAlter_IgnoreFailure(ok, d) == IF d.to_remove # {} THEN "remove" ELSE "done"

\* restore_snapshot: where control goes after the diff and after each driver call
AfterDiff(d) == IF Keys(d.to_add_or_alter) # {} THEN "alter"
                ELSE IF d.to_remove # {} THEN "remove" ELSE "done"
AfterAlter(ok, d) == IF ~ok THEN "done" ELSE IF d.to_remove # {} THEN "remove" ELSE "done"

\* ---------------------------------------------------------------- Init
InitCmd ==
    /\ cmd = "none" /\ pc = "idle" /\ result = "none" /\ prompted = FALSE
    /\ declined = FALSE /\ aborted = FALSE
    /\ vers = [n \in Names |-> {}]
    /\ todo = {} /\ deleted = {}
    /\ shots = <<>> /\ index = 0 /\ snapshot = NoSnapshot
    /\ installed = EmptyMap /\ diff = EmptyDiff /\ tarballs = <<>>
    /\ driverLog = <<>> /\ cacheChanges = 0
    /\ savePc = "idle" /\ saveTime = 0
    /\ listPc = "idle" /\ listTodo = {} /\ printed = {} /\ sawPartial = FALSE

StoredFiles(pins) == {NoFile} \cup {CompleteFile(p, m) : p \in pins, m \in SystemMaps}

\* Stores to be cleaned: any pinned flags, any cache index.
InitClean ==
    /\ snapDir \in [Times -> StoredFiles(BOOLEAN)]
    /\ \E c1 \in SUBSET Tarballs : caches = [c \in Caches |-> IF c = 1 THEN c1 ELSE {}]
    /\ localdb = EmptyMap

\* Systems to be restored: any installation, caches that may mirror each other.
InitRestore ==
    /\ \E m \in SystemMaps : snapDir \in [Times -> {NoFile, CompleteFile(FALSE, m)}]
    /\ \E c1 \in SUBSET Tarballs, k \in Caches : caches = [c \in Caches |-> IF c <= k THEN c1 ELSE {}]
    /\ localdb \in SystemMaps

Init == InitCmd /\ (InitClean \/ InitRestore)

\* ---------------------------------------------------------------- clean
CleanPrompt(l) ==
    /\ pc = "idle"
    /\ cmd' = "clean" /\ prompted' = TRUE
    /\ declined' = (l \notin YesLines)
    /\ IF prompt(l)
       THEN /\ vers' = all_versions(caches)
            /\ todo' = {t \in Times : snapDir[t].exists}
            /\ pc' = "clean_loop" /\ UNCHANGED result
       ELSE /\ result' = "Cancelled" /\ pc' = "done"
            /\ UNCHANGED <<vers, todo>>
    /\ UNCHANGED <<envVars, aborted, deleted, restoreVars, saveVars, listVars>>

CleanStep(t, ioOk) ==
    /\ pc = "clean_loop" /\ t \in todo
    /\ LET r == read_snapshot(t, snapDir[t])
       IN IF r.ok /\ CleanShouldRemove(r.snap, vers)
          THEN IF ioOk
               THEN /\ snapDir' = [snapDir EXCEPT ![t] = NoFile]
                    /\ deleted' = deleted \cup {t}
                    /\ todo' = todo \ {t}
                    /\ UNCHANGED <<pc, result>>
               ELSE /\ result' = "Io" /\ pc' = "done"
                    /\ UNCHANGED <<snapDir, deleted, todo>>
          ELSE /\ todo' = todo \ {t}
               /\ UNCHANGED <<snapDir, deleted, pc, result>>
    /\ UNCHANGED <<caches, localdb, cmd, declined, aborted, prompted, vers, restoreVars, saveVars, listVars>>

CleanDone ==
    /\ pc = "clean_loop" /\ todo = {}
    /\ result' = "Ok" /\ pc' = "done"
    /\ UNCHANGED <<envVars, cmd, declined, aborted, prompted, vers, cleanVars, restoreVars, saveVars, listVars>>

\* ---------------------------------------------------------------- restore
RestoreStart ==
    /\ pc = "idle"
    /\ cmd' = "restore"
    /\ vers' = all_versions(caches)
    /\ shots' = SortByTime(FilterUsable(snapshots(snapDir), vers'))
    /\ IF shots' = <<>>
       THEN result' = "Silent" /\ pc' = "done"
       ELSE pc' = "select" /\ UNCHANGED result
    /\ UNCHANGED <<envVars, declined, aborted, prompted, cleanVars, index, snapshot, installed, diff,
                   tarballs, driverLog, cacheChanges, saveVars, listVars>>

Select(l) ==
    /\ pc = "select"
    /\ prompted' = TRUE /\ aborted' = (l = EOF)
    /\ IF l = EOF
       THEN /\ result' = "Readline" /\ pc' = "done"
            /\ UNCHANGED <<index, snapshot, shots>>
       ELSE IF SelectAccepts(l, Len(shots) - 1)
       THEN /\ index' = ParseNum(l)
            /\ IF index' < Len(shots)
               THEN /\ snapshot' = shots[index' + 1]
                    /\ shots' = RemoveAt(shots, index' + 1)
                    /\ pc' = "restore_snapshot" /\ UNCHANGED result
               ELSE /\ result' = "panic" /\ pc' = "done"
                    /\ UNCHANGED <<snapshot, shots>>
       ELSE UNCHANGED <<pc, result, index, snapshot, shots>>
    /\ UNCHANGED <<envVars, cmd, declined, vers, cleanVars, installed, diff, tarballs, driverLog,
                   cacheChanges, saveVars, listVars>>

RestoreDiff ==
    /\ pc = "restore_snapshot"
    /\ installed' = localdb
    /\ diff' = package_diff(snapshot, installed')
    /\ pc' = AfterDiff(diff')
    /\ result' = IF pc' = "done" THEN "Ok" ELSE result
    /\ UNCHANGED <<envVars, cmd, declined, aborted, prompted, vers, cleanVars, shots, index, snapshot,
                   tarballs, driverLog, cacheChanges, saveVars, listVars>>

Alter(exit) ==
    LET ok == sudo_pacman(exit) IN
    /\ pc = "alter"
    /\ tarballs' = select_tarballs(caches, diff)
    /\ driverLog' = Append(driverLog, [flag |-> "-U", paths |-> tarballs', names |-> <<>>, ok |-> ok])
    /\ localdb' = IF ok THEN ApplyInstall(localdb, tarballs') ELSE localdb
    /\ pc' = AfterAlter(ok, diff)
    /\ result' = IF ~ok THEN "Pacman" ELSE IF pc' = "done" THEN "Ok" ELSE result
    /\ UNCHANGED <<snapDir, caches, cmd, declined, aborted, prompted, vers, cleanVars, shots, index, snapshot,
                   installed, diff, cacheChanges, saveVars, listVars>>

Remove(exit) ==
    LET ok == sudo_pacman(exit) IN
    /\ pc = "remove"
    /\ driverLog' = Append(driverLog, [flag |-> "-R", paths |-> <<>>,
                                       names |-> SetToSeq(diff.to_remove), ok |-> ok])
    /\ localdb' = IF ok THEN ApplyRemove(localdb, diff.to_remove) ELSE localdb
    /\ pc' = "done"
    /\ result' = IF ok THEN "Ok" ELSE "Pacman"
    /\ UNCHANGED <<snapDir, caches, cmd, declined, aborted, prompted, vers, cleanVars, shots, index, snapshot,
                   installed, diff, tarballs, cacheChanges, saveVars, listVars>>

\* Another program (a cache cleaner) removes a tarball while Restore waits.
CacheRemove(c, tb) ==
    /\ pc \in {"select", "restore_snapshot", "alter"}
    /\ cacheChanges < MaxCacheChanges
    /\ tb \in caches[c]
    /\ caches' = [caches EXCEPT ![c] = @ \ {tb}]
    /\ cacheChanges' = cacheChanges + 1
    /\ UNCHANGED <<snapDir, localdb, cmdVars, vers, cleanVars, shots, index, snapshot,
                   installed, diff, tarballs, driverLog, saveVars, listVars>>

\* ---------------------------------------------------------------- save, list
\* save: File::create publishes the final name, empty, before anything is written.
SaveCreate(t) ==
    /\ savePc = "idle"
    /\ saveTime' = t
    /\ snapDir' = [snapDir EXCEPT ![t] = [exists |-> TRUE, pinned |-> FALSE,
                                           packages |-> localdb, written |-> 0]]
    /\ savePc' = "writing"
    /\ UNCHANGED <<caches, localdb, cmdVars, vers, cleanVars, restoreVars, listVars>>

\* save: serde_json::to_writer through the BufWriter, one flush at a time.
SaveWrite ==
    /\ savePc = "writing"
    /\ snapDir' = [snapDir EXCEPT ![saveTime].written = @ + 1]
    /\ savePc' = IF snapDir'[saveTime].written = FileChunks THEN "done" ELSE "writing"
    /\ UNCHANGED <<caches, localdb, cmdVars, vers, cleanVars, restoreVars, saveTime, listVars>>

ListStart ==
    /\ listPc = "idle"
    /\ listTodo' = {t \in Times : snapDir[t].exists}
    /\ listPc' = "loop"
    /\ UNCHANGED <<envVars, cmdVars, vers, cleanVars, restoreVars, saveVars, printed, sawPartial>>

ListStep(t) ==
    /\ listPc = "loop" /\ t \in listTodo
    /\ LET r == read_snapshot(t, snapDir[t])
       IN /\ printed' = IF r.ok THEN printed \cup {t} ELSE printed
          /\ sawPartial' = (sawPartial \/ (snapDir[t].exists /\ ~r.ok))
    /\ listTodo' = listTodo \ {t}
    /\ UNCHANGED <<envVars, cmdVars, vers, cleanVars, restoreVars, saveVars, listPc>>

ListDone ==
    /\ listPc = "loop" /\ listTodo = {}
    /\ listPc' = "done"
    /\ UNCHANGED <<envVars, cmdVars, vers, cleanVars, restoreVars, saveVars, listTodo,
                   printed, sawPartial>>

\* ---------------------------------------------------------------- specifications
Next ==
    \/ \E l \in PromptLines : CleanPrompt(l)
    \/ \E t \in Times, ioOk \in BOOLEAN : CleanStep(t, ioOk)
    \/ CleanDone
    \/ RestoreStart
    \/ \E l \in SelectLines : Select(l)
    \/ RestoreDiff
    \/ \E exit \in ExitCodes : Alter(exit)
    \/ \E exit \in ExitCodes : Remove(exit)
    \/ \E c \in Caches, tb \in Tarballs : CacheRemove(c, tb)

Spec == Init /\ [][Next]_vars

\* package_diff on every snapshot and every installation over Names x Versions.
InitDiff ==
    /\ InitCmd
    /\ snapDir = [t \in Times |-> NoFile] /\ caches = [c \in Caches |-> {}]
    /\ localdb \in PkgMaps(Versions)

DiffInput(m) ==
    /\ pc = "idle"
    /\ cmd' = "restore" /\ pc' = "restore_snapshot"
    /\ snapshot' = [time |-> 1, pinned |-> FALSE, packages |-> m]
    /\ UNCHANGED <<envVars, result, declined, aborted, prompted, vers, cleanVars, shots, index,
                   installed, diff, tarballs, driverLog, cacheChanges, saveVars, listVars>>

NextDiff ==
    \/ \E m \in PkgMaps(Versions) : DiffInput(m)
    \/ RestoreDiff

SpecDiff == InitDiff /\ [][NextDiff]_vars

\* A Save running beside a List of the same directory.
InitSave ==
    /\ InitCmd
    /\ snapDir \in [Times -> StoredFiles({FALSE})]
    /\ caches = [c \in Caches |-> {}]
    /\ localdb \in SystemMaps

NextSave ==
    \/ \E t \in Times : SaveCreate(t)
    \/ SaveWrite
    \/ ListStart
    \/ \E t \in Times : ListStep(t)
    \/ ListDone

SpecSave == InitSave /\ [][NextSave]_vars

\* ---------------------------------------------------------------- properties
Snapshots == snapshots(snapDir)
InvokedU == \E i \in 1..Len(driverLog) : driverLog[i].flag = "-U"
InvokedR == \E i \in 1..Len(driverLog) : driverLog[i].flag = "-R"

\* C1: when Clean completes successfully, every snapshot still in the directory
\* is pinned or usable against the cache index Clean computed.
CleanSafety ==
    (cmd = "clean" /\ pc = "done" /\ result = "Ok")
        => \A s \in Snapshots : s.pinned \/ usable(s, vers)

\* A successful Clean that deleted something and retained something.
CleanSafetyWitness ==
    /\ cmd = "clean" /\ pc = "done" /\ result = "Ok"
    /\ deleted # {} /\ Snapshots # {}

\* C2: every step changes a snapshot file only by deleting it, and only if the
\* snapshot is unpinned and unusable against Clean's index; every other file is
\* left as it was, also when Clean aborts midway on an IO error.
CleanFrame ==
    [][\A t \in Times :
         snapDir'[t] # snapDir[t]
            => LET r == read_snapshot(t, snapDir[t])
               IN /\ cmd = "clean" /\ r.ok
                  /\ ~r.snap.pinned /\ ~usable(r.snap, vers)
                  /\ snapDir'[t] = NoFile /\ deleted' = deleted \cup {t}]_vars

\* A Clean that deleted a file and then aborted on an IO error.
CleanFrameWitness ==
    cmd = "clean" /\ pc = "done" /\ result = "Io" /\ deleted # {}

\* C3: "-U" is invoked before "-R"; a failed "-U" ends Restore with an error and
\* without a "-R" call; a failed call leaves the database as the calls before it
\* made it.
RestoreOrder ==
    /\ \A i, j \in 1..Len(driverLog) :
          (driverLog[i].flag = "-U" /\ driverLog[j].flag = "-R") => i < j
    /\ \A i \in 1..Len(driverLog) :
          ~driverLog[i].ok =>
             /\ i = Len(driverLog) /\ pc = "done" /\ result = "Pacman"
             /\ driverLog[i].flag = "-U" => (~InvokedR /\ localdb = installed)
             /\ (driverLog[i].flag = "-R" /\ i = 2)
                   => localdb = ApplyInstall(installed, driverLog[1].paths)

\* A Restore whose "-U" call failed while packages were still to be removed.
RestoreOrderWitness ==
    /\ Len(driverLog) = 1 /\ driverLog[1].flag = "-U" /\ ~driverLog[1].ok
    /\ diff.to_remove # {} /\ pc = "done"

\* C4: no package name is both a key of to_add_or_alter and a member of to_remove.
DiffDisjoint == Keys(diff.to_add_or_alter) \cap diff.to_remove = {}

\* A computed diff with both sides non-empty.
DiffDisjointWitness ==
    /\ pc # "restore_snapshot" /\ cmd = "restore"
    /\ Keys(diff.to_add_or_alter) # {} /\ diff.to_remove # {}

\* The reference diff of a snapshot's packages S and an installation I.
RefDiff(S, I) ==
    [to_add_or_alter |->
        [n \in Names |-> IF /\ S[n] # NoVer
                            /\ (I[n] = NoVer \/ vercmp(S[n], I[n]) # "Equal")
                         THEN S[n] ELSE NoVer],
     to_remove |-> {n \in Names : I[n] # NoVer /\ S[n] = NoVer}]
DiffComputed == cmd = "restore" /\ pc \in {"alter", "remove", "done"}
                /\ result \notin {"Silent", "Readline", "panic"}

\* C5: package_diff(S, I) is the reference diff, and the diff of an
\* installation against its own snapshot is empty on both sides.
DiffComplete ==
    DiffComputed =>
        /\ diff = RefDiff(snapshot.packages, installed)
        /\ snapshot.packages = installed => diff = EmptyDiff

\* A diff over a package whose versions differ as strings and compare Equal,
\* beside a package that is to be installed.
DiffCompleteWitness ==
    /\ DiffComputed
    /\ \E n \in Names : /\ contains_key(snapshot.packages, n) /\ contains_key(installed, n)
                        /\ snapshot.packages[n] # installed[n]
                        /\ vercmp(snapshot.packages[n], installed[n]) = "Equal"
    /\ Keys(diff.to_add_or_alter) # {}

\* Tarball selection has run (pc is past "alter") and found no file for an
\* entry of to_add_or_alter.
MissingTarball ==
    /\ cmd = "restore" /\ pc \in {"remove", "done"}
    /\ \E n \in Keys(diff.to_add_or_alter) :
          \A k \in 1..Len(tarballs) : tarballs[k][2] # n

\* C6: when tarball selection misses an entry of to_add_or_alter, Restore fails
\* with CacheRace and the driver is not invoked with the tarballs that were found.
CacheRaceReported ==
    MissingTarball => (pc = "done" /\ result = "CacheRace" /\ ~InvokedU)

\* C7: the "-U" argument vector holds at most one tarball path per package name.
TarballsDeduplicated ==
    \A i \in 1..Len(driverLog) :
        driverLog[i].flag = "-U" =>
            \A n \in Names :
                Cardinality({k \in 1..Len(driverLog[i].paths) : driverLog[i].paths[k][2] = n}) <= 1

\* C8: a snapshot file is in the directory only with its complete contents, and
\* an enumeration of the directory never meets a partially written file.
AtomicPublication ==
    /\ \A t \in Times : snapDir[t].exists => snapDir[t].written = FileChunks
    /\ ~sawPartial

\* C9: a declined Clean confirmation ends in Cancelled with no file deleted; an
\* aborted Restore selection ends in an error with no driver call made.
PromptCancel ==
    /\ declined => (pc = "done" /\ result = "Cancelled" /\ deleted = {} /\ todo = {})
    /\ aborted => (pc = "done" /\ result = "Readline" /\ driverLog = <<>>
                   /\ snapshot = NoSnapshot)

\* A declined Clean over a directory that holds a snapshot Clean would delete.
PromptCancelWitness ==
    /\ declined /\ pc = "done"
    /\ \E s \in Snapshots : (~s.pinned) /\ (~usable(s, all_versions(caches)))

\* C10: the snapshot Restore reconciles is a stored snapshot that is usable
\* against the index built at the start, chosen at a valid position of the list
\* of usable snapshots; with no usable snapshot Restore ends in Silent ("Empty")
\* without a prompt and without a driver call.
RestoreUsableOnly ==
    /\ result # "panic"
    /\ (cmd = "restore" /\ snapshot # NoSnapshot)
          => /\ snapshot \in Snapshots /\ usable(snapshot, vers)
             /\ index \in 0..Len(shots)
             /\ \A k \in 1..Len(shots) : shots[k] \in Snapshots /\ usable(shots[k], vers)
    /\ (cmd = "restore" /\ \A s \in Snapshots : ~usable(s, vers))
          => (pc = "done" /\ result = "Silent" /\ ~prompted /\ driverLog = <<>>)

\* A Restore that handed over a snapshot while an unusable one was stored.
RestoreUsableWitness ==
    /\ cmd = "restore" /\ snapshot # NoSnapshot
    /\ \E s \in Snapshots : ~usable(s, vers)

====
